---- MODULE Spec2Model ----
(***************************************************************************)
(* State-machine model of the transfer-adapter registry tq.Manifest       *)
(* (src/tq/manifest.go): two factory tables guarded by one sync.Mutex,    *)
(* used concurrently by a fixed set of threads (goroutines).              *)
(*                                                                         *)
(* Every thread carries a call stack of frames.  One action is one step   *)
(* of the method on top of a thread's stack: taking the mutex, touching a *)
(* table, running the looked-up factory, running the deferred Unlock,     *)
(* returning to the caller.                                               *)
(***************************************************************************)
EXTENDS Integers, Sequences, FiniteSets, TLC

\* ------------------------------------------------------------- bounds
\* Number of threads using the one Manifest.
NumThreads == 2
\* Number of top-level calls made on the Manifest in one behaviour.
MaxCalls == 3
\* Largest value the configuration reader stores in a tuning field.
MaxConfigInt == 2
\* Number of Install and Uninstall calls made in one behaviour.
MaxInstalls == 3

Threads == 1..NumThreads

\* ---------------------------------------------------------- constants
defaultMaxRetries == 1
defaultConcurrentTransfers == 3

\* The zero value of sync.Mutex: unlocked.  A locked mutex is modelled by
\* the thread that locked it.
NoOwner == 0

Upload == "Upload"
Download == "Download"
Directions == {Upload, Download}

BasicAdapterName == "basic"
TusAdapterName == "tus"

\* Adapter names the callers use: the empty name and the two built-in names.
\* "tus" is registered by InitAdapters for Upload only, and only when
\* TusTransfersAllowed is set, so it also serves as the name that is
\* unregistered until a caller registers it.
Names == {"", BasicAdapterName, TusAdapterName}

\* Factory functions (values of type NewAdapterFunc).  The built-in ones are
\* registered by InitAdapters; "custom" builds an adapter and returns;
\* "reentrant" calls back into the Manifest once before it returns.
BuiltinDownload == "builtinBasicDownload"
BuiltinUpload == "builtinBasicUpload"
BuiltinTus == "builtinTus"
ReentrantFactory == "reentrant"
CustomFactories == {"custom", ReentrantFactory}
NoFactory == "none"

\* The result of a factory call is an uninterpreted Adapter; the model tags
\* it with the factory that built it and the arguments it was built with.
\* NilAdapter is Go's nil, the "no adapter" sentinel.
NilAdapter == [by |-> NoFactory, name |-> "", dir |-> ""]
Adapter(f, name, dir) == [by |-> f, name |-> name, dir |-> dir]

VARIABLES
    MaxRetries,             \* Manifest.MaxRetries
    ConcurrentTransfers,    \* Manifest.ConcurrentTransfers
    BasicTransfersOnly,     \* Manifest.BasicTransfersOnly
    TusTransfersAllowed,    \* Manifest.TusTransfersAllowed
    downloadAdapterFuncs,   \* Manifest.downloadAdapterFuncs: name -> factory
    uploadAdapterFuncs,     \* Manifest.uploadAdapterFuncs: name -> factory
    mu,                     \* Manifest.mu: NoOwner or the thread holding it
    stack,                  \* per thread: the call stack, innermost frame last
    calls,                  \* number of top-level calls started so far
    initDone,               \* history: an InitAdapters call has returned
    everStored,             \* history: factories ever registered per (dir, name)
    lastStored,             \* history: factory of the latest registration per (dir, name)
    regReturned,            \* history: (dir, name) pairs whose registration has returned
    configured,             \* history: the tuning fields as the configuration reader left them
    gitConfig,              \* git.Configuration: scope -> key -> value ("" when unset)
    install,                \* the Install call in progress
    installs,               \* number of Install and Uninstall calls made so far
    installed,              \* history: scope -> keys a set has succeeded on since the section was last unset
    sectionFrom             \* history: scope -> how the filter.lfs section came to its contents

vars == <<MaxRetries, ConcurrentTransfers, BasicTransfersOnly, TusTransfersAllowed,
          downloadAdapterFuncs, uploadAdapterFuncs, mu, stack, calls,
          initDone, everStored, lastStored, regReturned, configured,
          gitConfig, install, installs, installed, sectionFrom>>

config == <<MaxRetries, ConcurrentTransfers, BasicTransfersOnly, TusTransfersAllowed>>
tables == <<downloadAdapterFuncs, uploadAdapterFuncs>>
history == <<initDone, everStored, lastStored, regReturned>>
\* What no method of the Manifest writes.
installer == <<gitConfig, install, installs, installed, sectionFrom>>
outside == <<configured, installer>>
manifest == <<config, tables, mu, stack, calls, history, configured>>

\* ------------------------------------------------------------ Go maps
\* A map[string]NewAdapterFunc is a function whose domain is the key set.
EmptyMap == [n \in {} |-> NoFactory]

\* Faulty variant of MapStore: the store drops every other key.
MapStoreKeepOthersLost(m, name, f) == [n \in {name} |-> f]

\* Faulty variant of MapStore: an existing entry is kept, not overwritten.
MapStoreNoOverwrite(m, name, f) ==
    IF name \in DOMAIN m THEN m
    ELSE [n \in DOMAIN m \cup {name} |-> IF n = name THEN f ELSE m[n]]

\* m[name] = f
MapStore(m, name, f) ==
    [n \in DOMAIN m \cup {name} |-> IF n = name THEN f ELSE m[n]]

\* Faulty variant of MapHas: ok is not consulted, every lookup is a hit.
MapHasAlways(m, name) == TRUE

\* v, ok := m[name]
MapHas(m, name) == name \in DOMAIN m
MapGet(m, name) == IF name \in DOMAIN m THEN m[name] ELSE NoFactory

\* The table of a direction (the switch on dir in the methods).
Funcs(dir) ==
    CASE dir = Upload -> uploadAdapterFuncs
      [] dir = Download -> downloadAdapterFuncs
      [] OTHER -> EmptyMap

\* Faulty variant of Orderings: the range may produce a key twice and skip
\* another.
OrderingsWithRepeats(S) == [1..Cardinality(S) -> S]

\* All orders in which ranging over a map's keys can produce them.
Orderings(S) ==
    {s \in [1..Cardinality(S) -> S] : \A i, j \in 1..Cardinality(S) : i # j => s[i] # s[j]}

\* ------------------------------------------------------------- frames
\* One activation record.  op is the method, pc its position, name/dir/f
\* its arguments and locals, req the name the caller passed, a the Adapter
\* result, ret the []string result, reentered whether the factory running
\* in this frame has already called back into the Manifest.  Two fields
\* record when the call began: sinceInit, after an InitAdapters call had
\* returned; after, after a registration of (dir, name) had returned.
\* stored lists, for InitAdapters, the registrations its bootstrap routines
\* have completed so far.
Frame(op, pc, name, dir, f) ==
    [op |-> op, pc |-> pc, name |-> name, dir |-> dir, f |-> f, req |-> name,
     a |-> NilAdapter, ret |-> <<>>, reentered |-> FALSE,
     sinceInit |-> initDone, after |-> FALSE, stored |-> <<>>]

Busy(t) == stack[t] # <<>>
Depth(t) == Len(stack[t])
Top(t) == stack[t][Len(stack[t])]
SetTop(t, fr) == [stack EXCEPT ![t] = [@ EXCEPT ![Len(@)] = fr]]
Push(t, fr) == [stack EXCEPT ![t] = Append(@, fr)]
At(t, op, pc) == Busy(t) /\ Top(t).op = op /\ Top(t).pc = pc


\* -------------------------------------------------- method entry points
\* RegisterNewAdapterFunc(name, dir, f): m.mu.Lock() comes first.
RegisterFrame(name, dir, f) == Frame("RegisterNewAdapterFunc", "lock", name, dir, f)

\* NewAdapter(name, dir): m.mu.Lock() comes first.
NewAdapterFrame(name, dir) ==
    [Frame("NewAdapter", "lock", name, dir, NoFactory)
        EXCEPT !.after = (<<dir, name>> \in regReturned)]

\* Faulty variant of getAdapterNames: BasicTransfersOnly is not consulted.
getAdapterNamesIgnoresFlag(dir) == Frame("getAdapterNames", "lock", "", dir, NoFactory)

\* Faulty variant of getAdapterNames: the keys are read without m.mu.Lock().
getAdapterNamesNoLock(dir) ==
    IF BasicTransfersOnly
    THEN [Frame("getAdapterNames", "ret", "", dir, NoFactory)
            EXCEPT !.ret = <<BasicAdapterName>>]
    ELSE Frame("getAdapterNames", "iterate", "", dir, NoFactory)

\* getAdapterNames: with BasicTransfersOnly it returns []string{BasicAdapterName}
\* before touching the mutex; otherwise m.mu.Lock() comes first.
getAdapterNames(dir) ==
    IF BasicTransfersOnly
    THEN [Frame("getAdapterNames", "ret", "", dir, NoFactory)
            EXCEPT !.ret = <<BasicAdapterName>>]
    ELSE Frame("getAdapterNames", "lock", "", dir, NoFactory)

\* Faulty variant of DefaultName: the empty name is looked up as it is.
DefaultNameKeepsEmpty(name) == name

\* NewAdapterOrDefault: if len(name) == 0 { name = BasicAdapterName }
DefaultName(name) == IF Len(name) = 0 THEN BasicAdapterName ELSE name

OrDefaultFrame(name, dir) ==
    [Frame("NewAdapterOrDefault", "first", DefaultName(name), dir, NoFactory)
        EXCEPT !.req = name, !.after = (<<dir, name>> \in regReturned)]

InitFrame == Frame("InitAdapters", "basicDownload", "", "", NoFactory)

\* The bootstrap routines InitAdapters calls; each registers one built-in
\* factory through RegisterNewAdapterFunc.
configureBasicDownloadAdapter == RegisterFrame(BasicAdapterName, Download, BuiltinDownload)
configureBasicUploadAdapter == RegisterFrame(BasicAdapterName, Upload, BuiltinUpload)
configureTusAdapter == RegisterFrame(TusAdapterName, Upload, BuiltinTus)

\* Faulty variant of ClampMaxRetries: the default replaces every value.
ClampMaxRetriesAlways(v) == defaultMaxRetries

\* if m.MaxRetries < 1 { m.MaxRetries = defaultMaxRetries }
ClampMaxRetries(v) == IF v < 1 THEN defaultMaxRetries ELSE v

\* Faulty variant of ClampConcurrentTransfers: a value below 1 is raised to 1.
ClampConcurrentTransfersToOne(v) == IF v < 1 THEN 1 ELSE v

\* if m.ConcurrentTransfers < 1 { m.ConcurrentTransfers = defaultConcurrentTransfers }
ClampConcurrentTransfers(v) == IF v < 1 THEN defaultConcurrentTransfers ELSE v

\* ----------------------------------------------------- top-level calls
CanCall(t) == ~Busy(t) /\ calls < MaxCalls

CallInitAdapters(t) ==
    /\ CanCall(t)
    /\ MaxRetries' = ClampMaxRetries(MaxRetries)
    /\ ConcurrentTransfers' = ClampConcurrentTransfers(ConcurrentTransfers)
    /\ stack' = [stack EXCEPT ![t] = <<InitFrame, configureBasicDownloadAdapter>>]
    /\ calls' = calls + 1
    /\ UNCHANGED <<BasicTransfersOnly, TusTransfersAllowed, tables, mu, history, outside>>

CallRegisterNewAdapterFunc(t) ==
    /\ CanCall(t)
    /\ \E name \in Names, dir \in Directions, f \in CustomFactories :
          stack' = Push(t, RegisterFrame(name, dir, f))
    /\ calls' = calls + 1
    /\ UNCHANGED <<config, tables, mu, history, outside>>

CallNewAdapter(t) ==
    /\ CanCall(t)
    /\ \E name \in Names, dir \in Directions :
          stack' = Push(t, NewAdapterFrame(name, dir))
    /\ calls' = calls + 1
    /\ UNCHANGED <<config, tables, mu, history, outside>>

\* NewAdapterOrDefault, NewDownloadAdapter, NewUploadAdapter: the name is
\* defaulted and the first NewAdapter call is made.
CallNewAdapterOrDefault(t) ==
    /\ CanCall(t)
    /\ \E name \in Names, dir \in Directions :
          stack' = [stack EXCEPT ![t] =
                       <<OrDefaultFrame(name, dir), NewAdapterFrame(DefaultName(name), dir)>>]
    /\ calls' = calls + 1
    /\ UNCHANGED <<config, tables, mu, history, outside>>

\* GetAdapterNames(dir), GetDownloadAdapterNames, GetUploadAdapterNames.
CallGetAdapterNames(t) ==
    /\ CanCall(t)
    /\ \E dir \in Directions : stack' = Push(t, getAdapterNames(dir))
    /\ calls' = calls + 1
    /\ UNCHANGED <<config, tables, mu, history, outside>>

\* --------------------------------------------------------- the mutex
\* Where a method continues once m.mu.Lock() has returned.
AfterLock(op) ==
    CASE op = "RegisterNewAdapterFunc" -> "store"
      [] op = "NewAdapter" -> "lookup"
      [] op = "getAdapterNames" -> "iterate"

\* m.mu.Lock(): blocks until the mutex is free, also when the caller itself
\* holds it (sync.Mutex is not reentrant).
Lock(t) ==
    /\ Busy(t)
    /\ Top(t).pc = "lock"
    /\ mu = NoOwner
    /\ mu' = t
    /\ stack' = SetTop(t, [Top(t) EXCEPT !.pc = AfterLock(Top(t).op)])
    /\ UNCHANGED <<config, tables, calls, history, outside>>

\* ------------------------------------------------ bodies of the methods
\* Faulty variant of StoresInto: both tables are written.
StoresIntoBoth(dir, table) == TRUE

\* switch dir { case Upload: m.uploadAdapterFuncs[name] = f
\*              case Download: m.downloadAdapterFuncs[name] = f }
\* Whether a registration for dir writes the table of direction table.
StoresInto(dir, table) == dir = table

RegisterStore(t) ==
    /\ At(t, "RegisterNewAdapterFunc", "store")
    /\ LET fr == Top(t) IN
          /\ uploadAdapterFuncs' =
                IF StoresInto(fr.dir, Upload)
                THEN MapStore(uploadAdapterFuncs, fr.name, fr.f)
                ELSE uploadAdapterFuncs
          /\ downloadAdapterFuncs' =
                IF StoresInto(fr.dir, Download)
                THEN MapStore(downloadAdapterFuncs, fr.name, fr.f)
                ELSE downloadAdapterFuncs
          /\ everStored' = [everStored EXCEPT ![fr.dir][fr.name] = @ \cup {fr.f}]
          /\ lastStored' = [lastStored EXCEPT ![fr.dir][fr.name] = fr.f]
          /\ stack' = SetTop(t, [fr EXCEPT !.pc = "unlock"])
    /\ UNCHANGED <<config, mu, calls, initDone, regReturned, outside>>

\* if u, ok := m.uploadAdapterFuncs[name]; ok { return u(name, dir) } ...
\* return nil.  A hit goes on to call the factory; a miss returns nil.
NewAdapterLookup(t) ==
    /\ At(t, "NewAdapter", "lookup")
    /\ LET fr == Top(t) IN
          stack' = SetTop(t,
              IF MapHas(Funcs(fr.dir), fr.name)
              THEN [fr EXCEPT !.pc = "call", !.f = MapGet(Funcs(fr.dir), fr.name)]
              ELSE [fr EXCEPT !.pc = "unlock", !.a = NilAdapter])
    /\ UNCHANGED <<config, tables, mu, calls, history, outside>>

\* The factory u(name, dir) returns its adapter.
FactoryReturn(t) ==
    /\ At(t, "NewAdapter", "call")
    /\ LET fr == Top(t) IN
          /\ fr.f = ReentrantFactory => fr.reentered
          /\ stack' = SetTop(t, [fr EXCEPT !.pc = "unlock",
                                           !.a = Adapter(fr.f, fr.name, fr.dir)])
    /\ UNCHANGED <<config, tables, mu, calls, history, outside>>

\* The calls a reentrant factory may make on the Manifest it was looked up in.
ReentrantCalls(fr) ==
    {RegisterFrame(fr.name, fr.dir, fr.f), NewAdapterFrame(fr.name, fr.dir),
     getAdapterNames(fr.dir)}

\* The factory u(name, dir) calls RegisterNewAdapterFunc, NewAdapter or
\* GetAdapterNames on the same Manifest before it returns.
FactoryReenter(t) ==
    /\ At(t, "NewAdapter", "call")
    /\ LET fr == Top(t) IN
          /\ fr.f = ReentrantFactory
          /\ ~fr.reentered
          /\ \E callee \in ReentrantCalls(fr) :
                stack' = [stack EXCEPT ![t] =
                             Append([@ EXCEPT ![Len(@)] = [fr EXCEPT !.reentered = TRUE]],
                                    callee)]
    /\ UNCHANGED <<config, tables, mu, calls, history, outside>>

\* ret := make([]string, 0, len(adapters)); for n := range adapters { append }
IterateNames(t) ==
    /\ At(t, "getAdapterNames", "iterate")
    /\ LET fr == Top(t) IN
          \E order \in Orderings(DOMAIN Funcs(fr.dir)) :
             stack' = SetTop(t, [fr EXCEPT !.pc = "unlock", !.ret = order])
    /\ UNCHANGED <<config, tables, mu, calls, history, outside>>

\* ------------------------------------------------------------ returns
\* Faulty variant of InitAdaptersNext: InitAdapters returns after the
\* download bootstrap.
InitAdaptersSkipsUpload(caller) == <<[caller EXCEPT !.pc = "ret"]>>

\* Faulty variant of InitAdaptersNext: an already initialized Manifest is
\* not bootstrapped again.
InitAdaptersOnlyOnce(caller) ==
    CASE caller.sinceInit -> <<[caller EXCEPT !.pc = "ret"]>>
      [] caller.pc = "basicDownload" ->
            <<[caller EXCEPT !.pc = "basicUpload"], configureBasicUploadAdapter>>
      [] caller.pc = "basicUpload" /\ TusTransfersAllowed ->
            <<[caller EXCEPT !.pc = "tus"], configureTusAdapter>>
      [] OTHER -> <<[caller EXCEPT !.pc = "ret"]>>

\* InitAdapters after one bootstrap routine has returned: the frames that
\* replace the InitAdapters frame (itself, and the next routine it calls).
InitAdaptersNext(caller) ==
    CASE caller.pc = "basicDownload" ->
            <<[caller EXCEPT !.pc = "basicUpload"], configureBasicUploadAdapter>>
      [] caller.pc = "basicUpload" /\ TusTransfersAllowed ->
            <<[caller EXCEPT !.pc = "tus"], configureTusAdapter>>
      [] OTHER -> <<[caller EXCEPT !.pc = "ret"]>>

\* Faulty variant of OrDefaultNext: the result of the first lookup is
\* dropped and "basic" is looked up in every case.
OrDefaultAlwaysBasic(caller, a) ==
    IF caller.pc = "first"
    THEN <<[caller EXCEPT !.pc = "second"], NewAdapterFrame(BasicAdapterName, caller.dir)>>
    ELSE <<[caller EXCEPT !.pc = "ret", !.a = a]>>

\* Faulty variant of OrDefaultNext: no second lookup under "basic".
OrDefaultNoFallback(caller, a) == <<[caller EXCEPT !.pc = "ret", !.a = a]>>

\* NewAdapterOrDefault after a NewAdapter call has returned a:
\* if a == nil { a = m.NewAdapter(BasicAdapterName, dir) }; return a
OrDefaultNext(caller, a) ==
    IF caller.pc = "first" /\ a = NilAdapter
    THEN <<[caller EXCEPT !.pc = "second"], NewAdapterFrame(BasicAdapterName, caller.dir)>>
    ELSE <<[caller EXCEPT !.pc = "ret", !.a = a]>>

\* What the caller's frame becomes when its callee returns.
Resume(caller, callee) ==
    CASE caller.op = "InitAdapters" ->
            InitAdaptersNext([caller EXCEPT
                !.stored = Append(@, <<callee.dir, callee.name, callee.f>>)])
      [] caller.op = "NewAdapterOrDefault" -> OrDefaultNext(caller, callee.a)
      [] OTHER -> <<caller>>

\* The stack of thread t once its innermost frame fr has returned: the
\* thread is idle again (top level) or the calling frame resumes.
Popped(t, fr) ==
    LET n == Depth(t) IN
    [stack EXCEPT ![t] =
        IF n = 1 THEN <<>> ELSE SubSeq(@, 1, n - 2) \o Resume(@[n - 1], fr)]

\* The deferred m.mu.Unlock() of RegisterNewAdapterFunc, NewAdapter and
\* getAdapterNames runs once the return value is computed, and the method
\* returns.  sync.Mutex does not record its owner: Unlock frees it.
Unlock(t) ==
    /\ Busy(t)
    /\ Top(t).pc = "unlock"
    /\ mu' = NoOwner
    /\ stack' = Popped(t, Top(t))
    /\ regReturned' =
          IF Top(t).op = "RegisterNewAdapterFunc"
          THEN regReturned \cup {<<Top(t).dir, Top(t).name>>}
          ELSE regReturned
    /\ UNCHANGED <<config, tables, calls, initDone, everStored, lastStored, outside>>

\* A method that holds no deferred Unlock returns: InitAdapters,
\* NewAdapterOrDefault, and getAdapterNames under BasicTransfersOnly.
Return(t) ==
    /\ Busy(t)
    /\ Top(t).pc = "ret"
    /\ stack' = Popped(t, Top(t))
    /\ initDone' = (initDone \/ Top(t).op = "InitAdapters")
    /\ UNCHANGED <<config, tables, mu, calls, everStored, lastStored, regReturned, outside>>

\* ------------------------------------------------------- the installer
\* nixhacks.SelfPath: the path os.Executable() returned.
SelfPath == "git-lfs"

\* The four configuration scopes of git.Configuration.
Scopes == {"local", "worktree", "system", "global"}

\* if opt.Local {...} else if opt.Worktree {...} else if opt.System {...}
\* else {... Global ...}: the scope a call reads and writes.
ScopeOf(opt) ==
    IF opt.Local THEN "local"
    ELSE IF opt.Worktree THEN "worktree"
    ELSE IF opt.System THEN "system"
    ELSE "global"

\* A nil map[string][]string.
NilUpgradeables == [k \in {} |-> <<>>]

\* Faulty variant of filterAttribute: the values the SkipSmudge variant
\* installs are missing from the upgradeable lists.
filterAttributeOldLists ==
    [Section |-> "filter.lfs",
     Properties |->
        [clean |-> SelfPath \o " clean -- %f",
         smudge |-> SelfPath \o " smudge -- %f",
         process |-> SelfPath \o " filter-process",
         required |-> "true"],
     Upgradeables |->
        [clean |-> <<SelfPath \o " clean %f">>,
         smudge |-> <<SelfPath \o " smudge %f", SelfPath \o " smudge --skip %f">>,
         process |-> <<SelfPath \o " filter", SelfPath \o " filter --skip">>]]

filterAttribute ==
    [Section |-> "filter.lfs",
     Properties |->
        [clean |-> SelfPath \o " clean -- %f",
         smudge |-> SelfPath \o " smudge -- %f",
         process |-> SelfPath \o " filter-process",
         required |-> "true"],
     Upgradeables |->
        [clean |-> <<SelfPath \o " clean %f">>,
         smudge |-> <<SelfPath \o " smudge %f",
                      SelfPath \o " smudge --skip %f",
                      SelfPath \o " smudge --skip -- %f">>,
         process |-> <<SelfPath \o " filter",
                       SelfPath \o " filter --skip",
                       SelfPath \o " filter-process --skip">>]]

skipSmudgeFilterAttribute ==
    [Section |-> "filter.lfs",
     Properties |->
        [clean |-> SelfPath \o " clean -- %f",
         smudge |-> SelfPath \o " smudge --skip -- %f",
         process |-> SelfPath \o " filter-process --skip",
         required |-> "true"],
     Upgradeables |->
        [clean |-> <<SelfPath \o " clean -- %f">>,
         smudge |-> <<SelfPath \o " smudge %f",
                      SelfPath \o " smudge --skip %f",
                      SelfPath \o " smudge -- %f">>,
         process |-> <<SelfPath \o " filter",
                       SelfPath \o " filter --skip",
                       SelfPath \o " filter-process">>]]

\* An Attribute a caller builds itself: two properties of the same section,
\* values of another filter, no Upgradeables.
callerAttribute ==
    [Section |-> "filter.lfs",
     Properties |-> [clean |-> "cat", smudge |-> "cat"],
     Upgradeables |-> NilUpgradeables]

\* strings.Join([]string{a.Section, relative}, ".")
normalizeKey(a, relative) == a.Section \o "." \o relative

\* The keys of the filter.lfs section.
SectionKeys(section) ==
    {section \o "." \o k : k \in DOMAIN filterAttribute.Properties}

ConfigKeys == SectionKeys("filter.lfs")

\* gitConfig.FindLocal(key), FindWorktree, FindSystem, FindGlobal: "" when
\* the key is not set in the scope.
Find(cfg, scope, key) == cfg[scope][key]

\* gitConfig.SetLocal(key, value), SetWorktree, SetSystem, SetGlobal.
Set(cfg, scope, key, value) == [cfg EXCEPT ![scope][key] = value]

\* gitConfig.UnsetLocalSection(section), UnsetWorktreeSection, ...
UnsetSection(cfg, scope, section) ==
    [cfg EXCEPT ![scope] =
        [key \in ConfigKeys |-> IF key \in SectionKeys(section) THEN "" ELSE @[key]]]

\* No key is set in any scope.
EmptyConfig == [scope \in Scopes |-> [key \in ConfigKeys |-> ""]]

\* A nil error, and the error
\* "the %q attribute should be %q but is %q" (key, value, currentValue).
NoError == <<>>
ConflictError(key, value, currentValue) == <<key, value, currentValue>>

\* Faulty variant of shouldReset: an empty value is not resettable.
shouldResetNotEmpty(value, upgradeables) ==
    \E i \in 1..Len(upgradeables) : value = upgradeables[i]

\* Faulty variant of shouldReset: every non-matching value is resettable.
shouldResetAlways(value, upgradeables) == TRUE

\* shouldReset: len(value) == 0, or value equals one of the upgradeables.
shouldReset(value, upgradeables) ==
    \/ Len(value) = 0
    \/ \E i \in 1..Len(upgradeables) : value = upgradeables[i]

\* Attribute.set: the configuration it leaves and the error it returns.
set(cfg, key, value, upgradeables, opt) ==
    LET currentValue == Find(cfg, ScopeOf(opt), key) IN
    IF opt.Force \/ shouldReset(currentValue, upgradeables)
    THEN [gitConfig |-> Set(cfg, ScopeOf(opt), key, value), err |-> NoError]
    ELSE IF currentValue # value
         THEN [gitConfig |-> cfg, err |-> ConflictError(key, value, currentValue)]
         ELSE [gitConfig |-> cfg, err |-> NoError]

\* if a.Upgradeables != nil { upgradeables = a.Upgradeables[k] }
UpgradeablesOf(a, k) ==
    IF a.Upgradeables # NilUpgradeables /\ k \in DOMAIN a.Upgradeables
    THEN a.Upgradeables[k]
    ELSE <<>>

\* The FilterOptions a caller passes.
FilterOptions ==
    [Force : BOOLEAN, Local : BOOLEAN, Worktree : BOOLEAN, System : BOOLEAN,
     SkipSmudge : BOOLEAN]

\* No set has been made in the current call.
NoSet == [key |-> "", value |-> "", currentValue |-> "", upgradeables |-> <<>>,
          prior |-> FALSE, err |-> NoError, before |-> EmptyConfig, made |-> FALSE]

\* No Install call is in progress.
Idle == [phase |-> "idle", a |-> callerAttribute,
         opt |-> [Force |-> FALSE, Local |-> FALSE, Worktree |-> FALSE,
                  System |-> FALSE, SkipSmudge |-> FALSE],
         todo |-> {}, err |-> NoError, before |-> EmptyConfig, last |-> NoSet,
         from |-> "other"]

\* Attribute.Install(opt) begins: the range over a.Properties has every key
\* still to produce.  from records how the section came to its contents if
\* this call succeeds.
Begin(a, opt, from) ==
    [phase |-> IF DOMAIN a.Properties = {} THEN "ret" ELSE "loop",
     a |-> a, opt |-> opt, todo |-> DOMAIN a.Properties, err |-> NoError,
     before |-> gitConfig, last |-> NoSet, from |-> from]

CanInstall == install.phase = "idle" /\ installs < MaxInstalls

\* FilterOptions.Install: the SkipSmudge variant or the normal one.
FilterOptionsInstall(opt) ==
    /\ CanInstall
    /\ install' = Begin(IF opt.SkipSmudge THEN skipSmudgeFilterAttribute
                        ELSE filterAttribute,
                        opt,
                        IF ~opt.Force /\ sectionFrom[ScopeOf(opt)] # "other"
                        THEN (IF opt.SkipSmudge THEN "skip" ELSE "normal")
                        ELSE "other")
    /\ installs' = installs + 1
    /\ UNCHANGED <<gitConfig, installed, sectionFrom, manifest>>

\* Attribute.Install called on a caller's own Attribute.
AttributeInstall(opt) ==
    /\ CanInstall
    /\ ~opt.SkipSmudge
    /\ install' = Begin(callerAttribute, opt, "other")
    /\ installs' = installs + 1
    /\ UNCHANGED <<gitConfig, installed, sectionFrom, manifest>>

\* Faulty variant of AfterSet: the loop goes on after an error.
AfterSetKeepsGoing(todo, err) == IF todo = {} THEN "ret" ELSE "loop"

\* if err := a.set(...); err != nil { return err }; after the last
\* property, return nil.
AfterSet(todo, err) == IF err # NoError \/ todo = {} THEN "ret" ELSE "loop"

\* One iteration of for k, v := range a.Properties: the range produces one
\* of the keys not produced yet, in any order, and a.set installs it.
InstallProperty ==
    /\ install.phase = "loop"
    /\ \E k \in install.todo :
          LET a == install.a
              key == normalizeKey(a, k)
              scope == ScopeOf(install.opt)
              r == set(gitConfig, key, a.Properties[k], UpgradeablesOf(a, k), install.opt)
          IN  /\ gitConfig' = r.gitConfig
              /\ installed' =
                    IF r.err = NoError
                    THEN [installed EXCEPT ![scope] = @ \cup {key}]
                    ELSE installed
              /\ install' =
                    [install EXCEPT
                        !.todo = @ \ {k},
                        !.err = IF r.err # NoError THEN r.err ELSE @,
                        !.phase = AfterSet(install.todo \ {k}, r.err),
                        !.last = [key |-> key, value |-> a.Properties[k],
                                  currentValue |-> Find(gitConfig, scope, key),
                                  upgradeables |-> UpgradeablesOf(a, k),
                                  prior |-> key \in installed[scope],
                                  err |-> r.err, before |-> gitConfig,
                                  made |-> TRUE]]
    /\ UNCHANGED <<installs, sectionFrom, manifest>>

\* Attribute.Install returns err or nil.
InstallReturn ==
    /\ install.phase = "ret"
    /\ install' = Idle
    /\ sectionFrom' = [sectionFrom EXCEPT ![ScopeOf(install.opt)] =
                          IF install.err = NoError THEN install.from ELSE "other"]
    /\ UNCHANGED <<gitConfig, installs, installed, manifest>>

\* FilterOptions.Uninstall: filterAttribute().Uninstall(o) unsets the
\* section in the selected scope.
FilterOptionsUninstall(opt) ==
    /\ CanInstall
    /\ ~opt.Force /\ ~opt.SkipSmudge
    /\ gitConfig' = UnsetSection(gitConfig, ScopeOf(opt), filterAttribute.Section)
    /\ installed' = [installed EXCEPT ![ScopeOf(opt)] = {}]
    /\ sectionFrom' = [sectionFrom EXCEPT ![ScopeOf(opt)] = "empty"]
    /\ installs' = installs + 1
    /\ UNCHANGED <<install, manifest>>

\* No filter.lfs key is set in any scope and no call has been made.
NoInstallYet ==
    /\ gitConfig = EmptyConfig
    /\ install = Idle
    /\ installs = 0
    /\ installed = [scope \in Scopes |-> {}]
    /\ sectionFrom = [scope \in Scopes |-> "empty"]

\* The tables, the mutex and the threads before the first call: empty tables
\* (NewManifest), unlocked mutex, no call in progress.
NoCallYet ==
    /\ downloadAdapterFuncs = EmptyMap
    /\ uploadAdapterFuncs = EmptyMap
    /\ mu = NoOwner
    /\ stack = [t \in Threads |-> <<>>]
    /\ calls = 0
    /\ initDone = FALSE
    /\ everStored = [d \in Directions |-> [n \in Names |-> {}]]
    /\ lastStored = [d \in Directions |-> [n \in Names |-> NoFactory]]
    /\ regReturned = {}
    /\ configured = [MaxRetries |-> MaxRetries, ConcurrentTransfers |-> ConcurrentTransfers]

\* ------------------------------------------------------ specification
\* The Manifest as NewManifest() returns it, with the two feature flags as
\* the configuration reader set them: default tuning values, empty tables,
\* unlocked mutex, no call in progress.
Init ==
    /\ MaxRetries = defaultMaxRetries
    /\ ConcurrentTransfers = defaultConcurrentTransfers
    /\ BasicTransfersOnly \in BOOLEAN
    /\ TusTransfersAllowed \in BOOLEAN
    /\ NoCallYet
    /\ NoInstallYet

\* The values a configuration reader may store in a tuning field before
\* InitAdapters runs: below 1, 1, and above 1.
ConfigInts == (0 - 1)..MaxConfigInt

\* The Manifest as NewManifest() returns it and a configuration reader then
\* sets its tuning fields and TusTransfersAllowed.
ConfigInit ==
    /\ MaxRetries \in ConfigInts
    /\ ConcurrentTransfers \in ConfigInts
    /\ BasicTransfersOnly = FALSE
    /\ TusTransfersAllowed \in BOOLEAN
    /\ NoCallYet
    /\ NoInstallYet

Next ==
    \E t \in Threads :
        \/ CallInitAdapters(t)
        \/ CallRegisterNewAdapterFunc(t)
        \/ CallNewAdapter(t)
        \/ CallNewAdapterOrDefault(t)
        \/ CallGetAdapterNames(t)
        \/ Lock(t)
        \/ RegisterStore(t)
        \/ NewAdapterLookup(t)
        \/ FactoryReturn(t)
        \/ FactoryReenter(t)
        \/ IterateNames(t)
        \/ Unlock(t)
        \/ Return(t)

Spec == Init /\ [][Next]_vars

\* InitAdapters and registrations on a Manifest whose tuning fields a
\* configuration reader has set.
ConfigNext ==
    \E t \in Threads :
        \/ CallInitAdapters(t)
        \/ CallRegisterNewAdapterFunc(t)
        \/ Lock(t)
        \/ RegisterStore(t)
        \/ Unlock(t)
        \/ Return(t)

ConfigSpec == ConfigInit /\ [][ConfigNext]_vars

\* The installer on a configuration with no filter.lfs key set; the
\* Manifest shares no state with it and makes no step.
InstallInit == Init /\ ~BasicTransfersOnly /\ ~TusTransfersAllowed

InstallNext ==
    \/ \E opt \in FilterOptions :
          \/ FilterOptionsInstall(opt)
          \/ AttributeInstall(opt)
          \/ FilterOptionsUninstall(opt)
    \/ InstallProperty
    \/ InstallReturn

InstallSpec == InstallInit /\ [][InstallNext]_vars

\* Each thread keeps running the method it is in; m.mu.Lock() returns once
\* the mutex stays free (at most MaxCalls calls compete for it).  Whether
\* and when a thread starts a call is up to the caller.
Step(t) ==
    \/ Lock(t)
    \/ RegisterStore(t)
    \/ NewAdapterLookup(t)
    \/ FactoryReturn(t)
    \/ FactoryReenter(t)
    \/ IterateNames(t)
    \/ Unlock(t)
    \/ Return(t)

\* The Manifest with both feature flags off (neither flag is read by
\* RegisterNewAdapterFunc or NewAdapter), its threads scheduled fairly.
FairInit == Init /\ ~BasicTransfersOnly /\ ~TusTransfersAllowed

FairSpec == FairInit /\ [][Next]_vars /\ \A t \in Threads : WF_vars(Step(t))

\* ------------------------------------------------------------- claims
\* Thread t is executing a factory call made by NewAdapter.
InFactory(t) ==
    \E i \in 1..Len(stack[t]) :
        stack[t][i].op = "NewAdapter" /\ stack[t][i].pc = "call"

\* Thread t is waiting in m.mu.Lock().
Waiting(t) == Busy(t) /\ Top(t).pc = "lock"

\* C1: while a thread executes a factory call made by NewAdapter, that
\* thread does not hold the Manifest's mutex.
C1_MutexFreeDuringFactory ==
    \A t \in Threads : InFactory(t) => mu # t

\* C2: a factory that calls RegisterNewAdapterFunc, NewAdapter or
\* GetAdapterNames on the Manifest it was looked up in does not deadlock: the
\* thread running it never waits in m.mu.Lock() for a mutex that it holds
\* itself (a wait that nothing can end, so the outer NewAdapter call would
\* never return).
C2_ReentrantFactoryNoDeadlock ==
    \A t \in Threads : (InFactory(t) /\ Waiting(t)) => mu # t

\* Thread t has a result in hand: its innermost frame is method op, about
\* to return (through its deferred Unlock, or directly).
Returning(t, op) == Busy(t) /\ Top(t).op = op /\ Top(t).pc \in {"unlock", "ret"}

\* C3: a NewAdapterOrDefault call made once InitAdapters has completed
\* returns a non-absent adapter, for every name and both directions, under
\* every interleaving with the other calls.
C3_OrDefaultNeverAbsent ==
    \A t \in Threads :
        (Returning(t, "NewAdapterOrDefault") /\ Top(t).sinceInit)
            => Top(t).a # NilAdapter

\* C3 witness: on an initialized Manifest a call for a name that is not in
\* the table returns an adapter, while the other thread has registered a
\* custom factory.
C3_Witness ==
    \E t \in Threads :
        /\ Returning(t, "NewAdapterOrDefault")
        /\ Top(t).sinceInit
        /\ Top(t).req = TusAdapterName
        /\ ~MapHas(Funcs(Top(t).dir), TusAdapterName)
        /\ Top(t).a # NilAdapter
        /\ \E d \in Directions, n \in Names : everStored[d][n] \cap CustomFactories # {}

\* C4: on an initialized Manifest, NewAdapterOrDefault("", dir) and
\* NewAdapterOrDefault(n, dir) for a name n never registered under dir
\* return a non-absent adapter that a factory registered under "basic" for
\* dir built, called with the name "basic" and with dir.
C4_DefaultIsBasic ==
    \A t \in Threads :
        (/\ Returning(t, "NewAdapterOrDefault")
         /\ Top(t).sinceInit
         /\ (Top(t).req = "" \/ everStored[Top(t).dir][Top(t).req] = {}))
            => /\ Top(t).a # NilAdapter
               /\ Top(t).a.name = BasicAdapterName
               /\ Top(t).a.dir = Top(t).dir
               /\ Top(t).a.by \in everStored[Top(t).dir][BasicAdapterName]

\* C4 witness: on a Manifest holding only the built-in factories, one thread
\* returns from NewAdapterOrDefault("", Upload) and the other from
\* NewAdapterOrDefault("tus", Download), "tus" not being registered for
\* Download; each holds the adapter of the built-in basic factory of its
\* direction.
C4_Witness ==
    \E t, u \in Threads :
        /\ Returning(t, "NewAdapterOrDefault") /\ Top(t).sinceInit
        /\ Top(t).req = "" /\ Top(t).dir = Upload
        /\ Top(t).a = Adapter(BuiltinUpload, BasicAdapterName, Upload)
        /\ Returning(u, "NewAdapterOrDefault") /\ Top(u).sinceInit
        /\ Top(u).req = TusAdapterName /\ Top(u).dir = Download
        /\ everStored[Download][TusAdapterName] = {}
        /\ Top(u).a = Adapter(BuiltinDownload, BasicAdapterName, Download)

\* Every registration that has returned is in its table (none is lost), and
\* a NewAdapter(n, d) call that began after a registration of (d, n) had
\* returned yields a non-absent adapter, built for (n, d) by a factory that
\* was registered for (d, n).
RegisteredIsResolvable ==
    /\ \A p \in regReturned : MapHas(Funcs(p[1]), p[2])
    /\ \A t \in Threads :
          (Returning(t, "NewAdapter") /\ Top(t).after)
             => /\ Top(t).a # NilAdapter
                /\ Top(t).a.name = Top(t).name
                /\ Top(t).a.dir = Top(t).dir
                /\ Top(t).a.by \in everStored[Top(t).dir][Top(t).name]

\* A factory that calls back into the Manifest has been registered.
ReentrantRegistered ==
    \E d \in Directions, n \in Names : ReentrantFactory \in everStored[d][n]

\* As long as no registered factory calls back into the Manifest, every
\* call a thread has begun returns, however registrations and lookups
\* interleave.
EveryCallCompletes ==
    \A t \in Threads : Busy(t) ~> (~Busy(t) \/ ReentrantRegistered)

Accessing(t) == Busy(t) /\ Top(t).pc \in {"store", "lookup", "iterate"}

\* C6: a thread that reads or writes either table holds the mutex, so at
\* most one thread is at a table access at any time, whichever directions
\* the accesses address.
C6_TablesGuarded ==
    \A t \in Threads :
        Accessing(t) => /\ mu = t
                        /\ \A u \in Threads \ {t} : ~Accessing(u)

\* C6 witness: one thread is storing into the upload table while another
\* thread's lookup in the download table waits for the mutex.
C6_Witness ==
    \E t, u \in Threads :
        /\ At(t, "RegisterNewAdapterFunc", "store") /\ Top(t).dir = Upload
        /\ At(u, "NewAdapter", "lock") /\ Top(u).dir = Download

\* C7: once InitAdapters has completed, "basic" is a key of both tables;
\* and a key once stored in a table stays in it.
C7_BasicAlwaysRegistered ==
    /\ initDone => /\ MapHas(downloadAdapterFuncs, BasicAdapterName)
                   /\ MapHas(uploadAdapterFuncs, BasicAdapterName)
    /\ \A d \in Directions, n \in Names :
          everStored[d][n] # {} => MapHas(Funcs(d), n)

\* C7 witness: InitAdapters has completed, every call of the behaviour has
\* returned, and custom registrations were made in between.
C7_Witness ==
    /\ initDone
    /\ calls = MaxCalls
    /\ \A t \in Threads : ~Busy(t)
    /\ MapGet(downloadAdapterFuncs, BasicAdapterName) \in CustomFactories
    /\ MapHas(uploadAdapterFuncs, "")

\* C8: RegisterNewAdapterFunc(name, dir, f) leaves f stored under (dir,
\* name) whatever was stored before, and NewAdapter(name, dir) invokes the
\* factory of the latest registration of (dir, name).
C8_LastWriterWins ==
    \A t \in Threads :
        /\ At(t, "RegisterNewAdapterFunc", "unlock")
              => MapGet(Funcs(Top(t).dir), Top(t).name) = Top(t).f
        /\ \A i \in 1..Len(stack[t]) :
              (stack[t][i].op = "NewAdapter" /\ stack[t][i].pc = "call")
                 => stack[t][i].f = lastStored[stack[t][i].dir][stack[t][i].name]
        /\ (At(t, "NewAdapter", "unlock") /\ Top(t).a # NilAdapter)
              => Top(t).a.by = lastStored[Top(t).dir][Top(t).name]

\* C8 witness: after InitAdapters and a later registration of a custom
\* factory under "basic" for Download, NewAdapter("basic", Download) holds
\* the custom factory's adapter, and the upload table still maps "basic" to
\* the built-in factory.
C8_Witness ==
    \E t \in Threads :
        /\ At(t, "NewAdapter", "unlock")
        /\ Top(t).sinceInit
        /\ Top(t).name = BasicAdapterName /\ Top(t).dir = Download
        /\ BuiltinDownload \in everStored[Download][BasicAdapterName]
        /\ Top(t).a.by \in CustomFactories
        /\ MapGet(uploadAdapterFuncs, BasicAdapterName) = BuiltinUpload

\* C9: each table holds exactly the names registered for its own direction,
\* and NewAdapter(name, dir) returns the absence sentinel exactly when no
\* registration was made for (dir, name), whatever is registered under the
\* same name for the other direction.
C9_DirectionsIndependent ==
    /\ \A d \in Directions, n \in Names :
          MapHas(Funcs(d), n) <=> everStored[d][n] # {}
    /\ \A t \in Threads :
          At(t, "NewAdapter", "unlock")
             => (Top(t).a = NilAdapter <=> everStored[Top(t).dir][Top(t).name] = {})

\* C9 witness: "tus" is registered for Upload only and NewAdapter("tus",
\* Download) holds the sentinel; and "basic" maps to different factories in
\* the two tables.
C9_Witness ==
    \E t \in Threads :
        /\ At(t, "NewAdapter", "unlock")
        /\ Top(t).name = TusAdapterName /\ Top(t).dir = Download
        /\ Top(t).a = NilAdapter
        /\ MapHas(uploadAdapterFuncs, TusAdapterName)
        /\ MapHas(downloadAdapterFuncs, BasicAdapterName)
        /\ MapHas(uploadAdapterFuncs, BasicAdapterName)
        /\ downloadAdapterFuncs[BasicAdapterName] # uploadAdapterFuncs[BasicAdapterName]

\* C10: with BasicTransfersOnly set, a listing call returns exactly the one
\* name "basic", whatever its direction's table holds.
C10_BasicOnlyListing ==
    \A t \in Threads :
        (BasicTransfersOnly /\ Returning(t, "getAdapterNames"))
            => Top(t).ret = <<BasicAdapterName>>

\* C10 witness: with BasicTransfersOnly set, a listing returns for a table
\* that holds custom factories and does not hold "basic".
C10_Witness ==
    \E t \in Threads :
        /\ BasicTransfersOnly
        /\ Returning(t, "getAdapterNames")
        /\ ~MapHas(Funcs(Top(t).dir), BasicAdapterName)
        /\ Cardinality(DOMAIN Funcs(Top(t).dir)) = 2
        /\ Top(t).ret = <<BasicAdapterName>>

\* C11: once InitAdapters has completed, a tuning field configured below 1
\* holds its default (MaxRetries 1, ConcurrentTransfers 3) and a field
\* configured at 1 or more holds the configured value; so both are at
\* least 1, and a Manifest configured with 0 and 0 holds 1 and 3.
C11_DefaultFloor ==
    initDone =>
        /\ MaxRetries = (IF configured.MaxRetries < 1 THEN 1 ELSE configured.MaxRetries)
        /\ ConcurrentTransfers =
              (IF configured.ConcurrentTransfers < 1 THEN 3
               ELSE configured.ConcurrentTransfers)
        /\ MaxRetries >= 1
        /\ ConcurrentTransfers >= 1

\* C11 witness: InitAdapters has completed on a Manifest configured with
\* MaxRetries = 0 and ConcurrentTransfers = 0; the fields are 1 and 3.
C11_Witness ==
    /\ initDone
    /\ configured.MaxRetries = 0 /\ configured.ConcurrentTransfers = 0
    /\ MaxRetries = 1 /\ ConcurrentTransfers = 3

\* C12 as stated: once InitAdapters has completed, a field configured at 0
\* or below equals the minimum 1.
C12_ClampedToOne ==
    initDone =>
        /\ configured.ConcurrentTransfers <= 0 => ConcurrentTransfers = 1
        /\ configured.MaxRetries <= 0 => MaxRetries = 1

\* C12 as amended: once InitAdapters has completed, ConcurrentTransfers
\* configured at 0 or below equals its default 3 (not the minimum 1), and
\* MaxRetries configured at 0 or below equals 1, which is its default.
C12_ClampedToDefault ==
    initDone =>
        /\ configured.ConcurrentTransfers <= 0
              => ConcurrentTransfers = defaultConcurrentTransfers /\ ConcurrentTransfers = 3
        /\ configured.MaxRetries <= 0
              => MaxRetries = defaultMaxRetries /\ MaxRetries = 1

\* C12 witness: InitAdapters has completed on a Manifest configured with a
\* negative ConcurrentTransfers and a negative MaxRetries.
C12_Witness ==
    /\ initDone
    /\ configured.ConcurrentTransfers < 0 /\ configured.MaxRetries < 0
    /\ ConcurrentTransfers = 3 /\ MaxRetries = 1

\* C13: NewAdapter(name, dir) holds the absence sentinel, no factory having
\* been invoked, exactly when name is not a key of dir's table at the
\* lookup (also before any InitAdapters); a factory is invoked only for a
\* key of the table; every result is the sentinel or an adapter a
\* registered factory built; and NewAdapterOrDefault(name, dir) returns the
\* sentinel when neither "basic" nor the name was ever registered for dir.
C13_AbsenceIsNotAnError ==
    \A t \in Threads :
        /\ At(t, "NewAdapter", "unlock") =>
              /\ (Top(t).a = NilAdapter /\ Top(t).f = NoFactory)
                    <=> Top(t).name \notin DOMAIN Funcs(Top(t).dir)
              /\ Top(t).a # NilAdapter =>
                    Top(t).a = Adapter(Top(t).f, Top(t).name, Top(t).dir)
        /\ At(t, "NewAdapter", "call") =>
              /\ Top(t).name \in DOMAIN Funcs(Top(t).dir)
              /\ Top(t).f \in everStored[Top(t).dir][Top(t).name]
        /\ (/\ At(t, "NewAdapterOrDefault", "ret")
            /\ everStored[Top(t).dir][BasicAdapterName] = {}
            /\ everStored[Top(t).dir][Top(t).name] = {})
              => Top(t).a = NilAdapter

\* C13 witness: on a Manifest no InitAdapters call was ever made on, one
\* thread's NewAdapter("tus", Upload) holds the sentinel with no factory
\* invoked, and the other's NewAdapterOrDefault("tus", Download) returns the
\* sentinel after both of its lookups missed.
C13_Witness ==
    \E t, u \in Threads :
        /\ ~initDone
        /\ \A d \in Directions : everStored[d][BasicAdapterName] = {}
        /\ At(t, "NewAdapter", "unlock") /\ Depth(t) = 1
        /\ Top(t).name = TusAdapterName /\ Top(t).dir = Upload
        /\ Top(t).a = NilAdapter /\ Top(t).f = NoFactory
        /\ At(u, "NewAdapterOrDefault", "ret")
        /\ Top(u).req = TusAdapterName /\ Top(u).dir = Download
        /\ Top(u).a = NilAdapter

\* C17: with BasicTransfersOnly false, the result a listing call for
\* direction d holds when it returns is an enumeration of the keys d's table
\* has at that instant: every key exactly once, nothing else (so no key
\* that only the other direction's table has), also while registrations of
\* other threads are in progress.
C17_ListingIsSnapshot ==
    \A t \in Threads :
        (~BasicTransfersOnly /\ At(t, "getAdapterNames", "unlock")) =>
            LET ret == Top(t).ret
                keys == DOMAIN Funcs(Top(t).dir)
            IN  /\ Len(ret) = Cardinality(keys)
                /\ {ret[i] : i \in 1..Len(ret)} = keys
                /\ \A i, j \in 1..Len(ret) : i # j => ret[i] # ret[j]
                /\ \A i \in 1..Len(ret) : everStored[Top(t).dir][ret[i]] # {}

\* C17 witness: a listing for Upload returns the two keys of the Upload
\* table while the other thread's registration of a third name for Upload
\* waits for the mutex, and the Download table holds a different key set.
C17_Witness ==
    \E t, u \in Threads :
        /\ ~BasicTransfersOnly
        /\ At(t, "getAdapterNames", "unlock") /\ Top(t).dir = Upload
        /\ Len(Top(t).ret) = 2
        /\ At(u, "RegisterNewAdapterFunc", "lock") /\ Top(u).dir = Upload
        /\ Top(u).name \notin DOMAIN uploadAdapterFuncs
        /\ DOMAIN downloadAdapterFuncs # DOMAIN uploadAdapterFuncs

\* A registration made by a bootstrap routine of an InitAdapters call that
\* began on an already initialized Manifest.
InSecondInit(t) ==
    /\ Depth(t) = 2
    /\ stack[t][1].op = "InitAdapters"
    /\ stack[t][1].sinceInit
    /\ Top(t).op = "RegisterNewAdapterFunc"

\* C18 as stated: a store made by an InitAdapters call on an already
\* initialized Manifest leaves every entry registered under a name other
\* than "basic", in both tables, unchanged.
C18_OtherNamesUntouched ==
    [][\A t \in Threads :
         (InSecondInit(t) /\ Top(t).pc = "store" /\ stack'[t] # stack[t]) =>
             \A d \in Directions, n \in Names \ {BasicAdapterName} :
                 n \in DOMAIN Funcs(d) =>
                     n \in DOMAIN Funcs(d)' /\ Funcs(d)'[n] = Funcs(d)[n]]_vars

\* C18 as amended: an InitAdapters call on an already initialized Manifest (1) stores
\* the built-in factory under (Download, "basic"), (Upload, "basic") and,
\* with TusTransfersAllowed, (Upload, "tus"), whatever was registered there
\* in between; (2) each of its stores leaves every other entry of both
\* tables as it was; (3) it has made all of these registrations when it
\* returns; (4) MaxRetries and ConcurrentTransfers do not change once the
\* first InitAdapters call has completed.
C18_SecondInitReregisters ==
    /\ [](\A t \in Threads :
            /\ (InSecondInit(t) /\ Top(t).pc = "unlock") =>
                  /\ <<Top(t).dir, Top(t).name, Top(t).f>> \in
                        {<<Download, BasicAdapterName, BuiltinDownload>>,
                         <<Upload, BasicAdapterName, BuiltinUpload>>}
                        \cup (IF TusTransfersAllowed
                              THEN {<<Upload, TusAdapterName, BuiltinTus>>} ELSE {})
                  /\ Funcs(Top(t).dir)[Top(t).name] = Top(t).f
            /\ (At(t, "InitAdapters", "ret") /\ Top(t).sinceInit) =>
                  Top(t).stored =
                      <<<<Download, BasicAdapterName, BuiltinDownload>>,
                        <<Upload, BasicAdapterName, BuiltinUpload>>>>
                      \o (IF TusTransfersAllowed
                          THEN <<<<Upload, TusAdapterName, BuiltinTus>>>> ELSE <<>>))
    /\ [][\A t \in Threads :
            (InSecondInit(t) /\ Top(t).pc = "store" /\ stack'[t] # stack[t]) =>
                \A d \in Directions, n \in Names :
                    <<d, n>> # <<Top(t).dir, Top(t).name>> =>
                        /\ (n \in DOMAIN Funcs(d)') <=> (n \in DOMAIN Funcs(d))
                        /\ n \in DOMAIN Funcs(d) => Funcs(d)'[n] = Funcs(d)[n]]_vars
    /\ [][initDone =>
            /\ MaxRetries' = MaxRetries
            /\ ConcurrentTransfers' = ConcurrentTransfers]_vars

\* C18 witness: the first InitAdapters raised ConcurrentTransfers from 0 to
\* its default, a custom factory was then stored under (Upload, "basic"),
\* and the second InitAdapters has just stored the built-in upload factory
\* over it.
C18_Witness ==
    \E t \in Threads :
        /\ InSecondInit(t) /\ Top(t).pc = "unlock"
        /\ Top(t).dir = Upload
        /\ everStored[Upload][BasicAdapterName] \cap CustomFactories # {}
        /\ uploadAdapterFuncs[BasicAdapterName] = BuiltinUpload
        /\ configured.ConcurrentTransfers = 0
        /\ ConcurrentTransfers = defaultConcurrentTransfers

\* C19 as stated: a NewAdapterOrDefault(n, d) call made when a registration
\* of n for d has returned ends with an adapter that a factory registered
\* under n for d built, called with the name n, for every name n.
C19_RegisteredNameWins ==
    \A t \in Threads :
        (At(t, "NewAdapterOrDefault", "ret") /\ Top(t).after) =>
            /\ Top(t).a # NilAdapter
            /\ Top(t).a.name = Top(t).req
            /\ Top(t).a.by \in everStored[Top(t).dir][Top(t).req]

\* C19 as amended: the same for every non-empty name n (the empty name is
\* replaced by "basic" before the first lookup, also when a factory is
\* registered under the empty name); and the second lookup, under "basic",
\* is made only by a call whose name was not registered when it began and
\* was not a key of d's table at the first lookup.
C19_RegisteredNonEmptyNameWins ==
    \A t \in Threads :
        /\ (At(t, "NewAdapterOrDefault", "ret") /\ Top(t).after /\ Top(t).req # "") =>
              /\ Top(t).a # NilAdapter
              /\ Top(t).a.name = Top(t).req
              /\ Top(t).a.dir = Top(t).dir
              /\ Top(t).a.by \in everStored[Top(t).dir][Top(t).req]
        /\ (Busy(t) /\ stack[t][1].op = "NewAdapterOrDefault"
                    /\ stack[t][1].pc = "second" /\ stack[t][1].req # "") =>
              ~stack[t][1].after
        /\ (Depth(t) = 2 /\ stack[t][1].op = "NewAdapterOrDefault"
                         /\ stack[t][1].pc = "first"
                         /\ At(t, "NewAdapter", "unlock") /\ Top(t).a = NilAdapter) =>
              Top(t).name \notin DOMAIN Funcs(Top(t).dir)

\* C19 witness: NewAdapterOrDefault("tus", d), called after a custom
\* factory was registered under "tus" for d, returns that factory's adapter
\* although "basic" has been registered for d by the other thread meanwhile.
C19_Witness ==
    \E t \in Threads :
        /\ At(t, "NewAdapterOrDefault", "ret")
        /\ Top(t).after /\ Top(t).req = TusAdapterName
        /\ Top(t).a.by \in CustomFactories
        /\ Top(t).a.name = TusAdapterName
        /\ BasicAdapterName \in DOMAIN Funcs(Top(t).dir)

\* The last Attribute.set of the Install call in progress met a value in
\* the selected scope that is non-empty, differs from the desired value and
\* equals none of the property's upgradeable values, with force false.
Conflicting ==
    /\ ~install.opt.Force
    /\ install.last.currentValue # ""
    /\ install.last.currentValue # install.last.value
    /\ \A i \in 1..Len(install.last.upgradeables) :
          install.last.currentValue # install.last.upgradeables[i]

C16_StopsAtFirstConflict ==
    install.err # NoError =>
        /\ install.phase = "ret"
        /\ install.last.made /\ install.last.err = install.err
        /\ gitConfig = install.last.before
        /\ \A k \in install.todo :
              gitConfig[ScopeOf(install.opt)][normalizeKey(install.a, k)]
                 = install.before[ScopeOf(install.opt)][normalizeKey(install.a, k)]

\* C16 witness: an unforced install of the normal variant returns the error
\* for filter.lfs.smudge after it has set filter.lfs.process, with
\* required still to do and still unset.
C16_Witness ==
    /\ install.phase = "ret"
    /\ install.err # NoError
    /\ install.a = filterAttribute
    /\ install.last.key = "filter.lfs.smudge"
    /\ "required" \in install.todo
    /\ "process" \notin install.todo
    /\ gitConfig[ScopeOf(install.opt)]["filter.lfs.required"] = ""
    /\ gitConfig[ScopeOf(install.opt)]["filter.lfs.process"]
          = filterAttribute.Properties["process"]
    /\ gitConfig # install.before

\* The four filter.lfs properties of a scope hold the values of variant a.
Holds(scope, a) ==
    \A k \in {"clean", "smudge", "process", "required"} :
        gitConfig[scope][normalizeKey(a, k)] = a.Properties[k]

====
